---- MODULE Spec2Model ----
(***************************************************************************)
(* A model of apple-health-chat-mcp: the HealthDataManager (file           *)
(* discovery, CSV loading, the bounded file cache, range reads) and the    *)
(* QueryEngine (filter, group, sort, paginate, format).                    *)
(*                                                                         *)
(* Time is counted in whole hours since local midnight of day 0, so an     *)
(* instant t lies on day t \div HoursPerDay at local hour t % HoursPerDay. *)
(***************************************************************************)
EXTENDS Integers, Sequences, FiniteSets, TLC

\* ------------------------------------------------------------------ bounds
MaxDay == 1        \* file names and records carry days 0..MaxDay
MaxFiles == 2      \* files in the data directory
MaxRows == 2       \* data rows in the data directory, all files together
MaxVal == 1        \* metric values are 1..MaxVal, or empty
MaxCacheSize == 1  \* an explicitly configured cacheSize is 0..MaxCacheSize

\* --------------------------------------------------------------- constants
HoursPerDay == 24
DefaultCacheSize == 10
Null == -1         \* an empty CSV cell
BadStamp == -2     \* a timestamp cell that parseTimestamp rejects

Days == 0..MaxDay
\* The instants of the model: each local midnight, and hour 1 of day 0.
Stamps == {d * HoursPerDay : d \in Days} \cup {1}
Vals == {Null} \cup (1..MaxVal)
METRIC == "Step Count (steps)"

\* ------------------------------------------------------------- file names
\* "hyphen"  HealthMetrics-YYYY-MM-DD.csv
\* "compact" HealthMetricsYYYYMMDD.csv
\* "other"   HealthMetricsX.csv: found by discovery, carries no date
Paths ==
  [kind : {"hyphen", "compact"}, day : Days] \cup {[kind |-> "other", day |-> 0]}

\* The code unit that follows the common prefix ".../HealthMetrics".
KindCode(k) ==
  CASE k = "hyphen" -> 45
    [] k = "compact" -> 50
    [] OTHER -> 88

\* String comparison of two paths, as Array.prototype.sort() without a
\* comparator does it: by code units; dates are zero padded, so two names of
\* one kind compare as their days do.
PathLess(p, q) ==
  \/ KindCode(p.kind) < KindCode(q.kind)
  \/ KindCode(p.kind) = KindCode(q.kind) /\ p.day < q.day

\* ------------------------------------------------------------- the disk
\* A data row: the csvDate cell and the metric cell.
GoodRow == [csvDate |-> 0, steps |-> 1]
BadRow == [csvDate |-> BadStamp, steps |-> Null]
Rows == [csvDate : Stamps, steps : Vals]

RECURSIVE SeqsUpTo(_, _)
SeqsUpTo(S, n) ==
  IF n = 0 THEN {<<>>}
  ELSE LET shorter == SeqsUpTo(S, n - 1)
       IN shorter \cup {Append(s, x) : s \in {t \in shorter : Len(t) = n - 1}, x \in S}

\* The directories with at most f files named in P, holding at most n rows
\* of R all together: functions from the files' paths to their rows.
RECURSIVE DiskSet(_, _, _, _)
DiskSet(P, f, n, R) ==
  IF P = {} \/ f = 0 THEN {<<>>}
  ELSE LET p == CHOOSE q \in P : TRUE
           without == DiskSet(P \ {p}, f, n, R)
       IN without \cup
          UNION {{(p :> rows) @@ d : d \in DiskSet(P \ {p}, f - 1, n - Len(rows), R)} :
                   rows \in SeqsUpTo(R, n)}

\* Directories whose files hold one row each, a good one or a bad one.
PlainDisks ==
  UNION {[S -> {<<GoodRow>>, <<BadRow>>}] :
           S \in {T \in SUBSET Paths : Cardinality(T) <= MaxFiles}}

\* Directories of files that hold any rows with a well-formed timestamp.
DataDisks == DiskSet(Paths, MaxFiles, MaxRows, Rows)

\* An explicit configuration: caching with some capacity, or no caching.
Configs ==
  [cacheSize : 0..MaxCacheSize, enableCaching : {TRUE}]
    \cup {[cacheSize |-> DefaultCacheSize, enableCaching |-> FALSE]}

\* The configuration the constructor defaults to.
DefaultConfig == [cacheSize |-> DefaultCacheSize, enableCaching |-> TRUE]

\* A closed range of instants with start <= end.
RangeBounds == {d * HoursPerDay : d \in Days}
DateRanges == {r \in [start : RangeBounds, end : RangeBounds] : r.start <= r.end}

MaxCallers == 2    \* calls in flight on one HealthDataManager
\* A call in flight: the files it has still to load (the first one is being
\* parsed when parsing is set), and for getSampleData the samples it still
\* wants (Null: the call counts none).
NoCall == [todo |-> <<>>, parsing |-> FALSE, want |-> Null]

VARIABLES
  disk,            \* path -> rows: the files of config.dataDirectory
  config,          \* HealthDataManager.config
  cache,           \* HealthDataManager.cache, in key insertion order
  availableFiles,  \* HealthDataManager.availableFiles
  lastCall,        \* the call that ran last: [op, arg]
  lastResult,      \* what it returned: [ok, value]
  loadLog,         \* the paths it passed to loadFile, in order
  parseLog,        \* the paths it passed to parseCSVFile, in order
  evictLog,        \* the cache keys it deleted, in order
  callers,         \* the calls in flight, each suspended at an await
  queryData,       \* the record array a caller hands to executeQuery
  lastQuery,       \* the executeQuery call that ran last: [query, options]
  queryResult      \* what it returned or threw

storeVars ==
  <<disk, config, cache, availableFiles, lastCall, lastResult, loadLog, parseLog,
    evictLog, callers>>
queryVars == <<queryData, lastQuery, queryResult>>
vars == <<storeVars, queryVars>>


\* ------------------------------------------------------- discoverFiles
\* The files a glob pattern matches, in some order (the sort below makes the
\* order immaterial).
GlobMatches(pattern, p) ==
  CASE pattern = "**/HealthMetrics-*.csv" -> p.kind = "hyphen"
    [] pattern = "**/HealthMetrics*.csv" -> TRUE
    [] OTHER -> FALSE

RECURSIVE SetToSeq(_)
SetToSeq(S) ==
  IF S = {} THEN <<>>
  ELSE LET x == CHOOSE y \in S : TRUE IN <<x>> \o SetToSeq(S \ {x})

Glob(d, pattern) == SetToSeq({p \in DOMAIN d : GlobMatches(pattern, p)})

\* Array.prototype.sort() on strings: a stable sort by PathLess.
RECURSIVE InsertPath(_, _)
InsertPath(s, x) ==
  IF s = <<>> THEN <<x>>
  ELSE IF PathLess(x, Head(s)) THEN <<x>> \o s
  ELSE <<Head(s)>> \o InsertPath(Tail(s), x)

RECURSIVE SortPaths(_)
SortPaths(s) ==
  IF s = <<>> THEN <<>>
  ELSE InsertPath(SortPaths(SubSeq(s, 1, Len(s) - 1)), s[Len(s)])

DiscoverFiles(d) ==
  SortPaths(Glob(d, "**/HealthMetrics-*.csv") \o Glob(d, "**/HealthMetrics*.csv"))

\* -------------------------------------------------------- parseCSVFile
Failure(details) == [ok |-> FALSE, code |-> "CSV_PARSE_FAILED", details |-> details]

\* The date in a file name, as the instant of its local midnight.
ExtractDateFromFilename(p) ==
  IF p.kind \in {"hyphen", "compact"}
  THEN [ok |-> TRUE, date |-> p.day * HoursPerDay]
  ELSE [ok |-> FALSE, code |-> "INVALID_FILENAME"]

ParseTimestamp(value) ==
  IF value \in Nat
  THEN [ok |-> TRUE, date |-> value]
  ELSE [ok |-> FALSE, code |-> "INVALID_TIMESTAMP"]

ParseCSVFile(d, filePath) ==
  IF filePath \notin DOMAIN d THEN Failure("FILE_NOT_FOUND")
  ELSE LET rows == d[filePath]
           date == ExtractDateFromFilename(filePath)
       IN IF ~date.ok THEN Failure(date.code)
          ELSE IF \E i \in 1..Len(rows) : ~ParseTimestamp(rows[i].csvDate).ok
          THEN Failure("INVALID_TIMESTAMP")
          ELSE [ok |-> TRUE,
                filename |-> filePath,
                date |-> date.date,
                data |-> [i \in 1..Len(rows) |->
                           [timestamp |-> ParseTimestamp(rows[i].csvDate).date,
                            steps |-> rows[i].steps]],
                columns |-> <<"csvDate", METRIC>>,
                rowCount |-> Len(rows)]

\* ------------------------------------------------------------ the cache
\* The cache object as the sequence of its [key, file] entries in insertion
\* order, which is the order of Object.keys.
CacheKeys(c) == [i \in 1..Len(c) |-> c[i].key]
CacheHas(c, k) == \E i \in 1..Len(c) : c[i].key = k
CacheGet(c, k) == c[CHOOSE i \in 1..Len(c) : c[i].key = k].file
\* An assignment that puts a new key at the old end of the key order.
CachePut_AtFront(c, k, v) ==
  IF CacheHas(c, k)
  THEN [i \in 1..Len(c) |-> IF c[i].key = k THEN [key |-> k, file |-> v] ELSE c[i]]
  ELSE <<[key |-> k, file |-> v]>> \o c

CachePut(c, k, v) ==
  IF CacheHas(c, k)
  THEN [i \in 1..Len(c) |-> IF c[i].key = k THEN [key |-> k, file |-> v] ELSE c[i]]
  ELSE Append(c, [key |-> k, file |-> v])

\* cleanupCache with a slice that is one key short.
CleanupCache_OneShort(c) ==
  IF Len(c) > config.cacheSize + 1
  THEN LET n == Len(c) - config.cacheSize - 1
       IN [cache |-> SubSeq(c, n + 1, Len(c)), removed |-> CacheKeys(SubSeq(c, 1, n))]
  ELSE [cache |-> c, removed |-> <<>>]

CleanupCache(c) ==
  IF Len(c) > config.cacheSize
  THEN LET n == Len(c) - config.cacheSize
       IN [cache |-> SubSeq(c, n + 1, Len(c)), removed |-> CacheKeys(SubSeq(c, 1, n))]
  ELSE [cache |-> c, removed |-> <<>>]

GetCacheStats(c) == [size |-> Len(c), files |-> CacheKeys(c)]

\* ------------------------------------------------------------- loadFile
\* m is the manager during a call: its cache and the call's logs.
Manager(c) == [cache |-> c, loadLog |-> <<>>, parseLog |-> <<>>, evictLog |-> <<>>]

\* loadFile that, on a hit, moves the entry to the young end of the cache.
LoadFile_Refresh(m, d, filePath) ==
  LET m1 == [m EXCEPT !.loadLog = Append(@, filePath)]
      NotHit(e) == e.key # filePath
  IN IF config.enableCaching /\ CacheHas(m.cache, filePath)
     THEN [m |-> [m1 EXCEPT !.cache =
                    Append(SelectSeq(m.cache, NotHit),
                           [key |-> filePath, file |-> CacheGet(m.cache, filePath)])],
           res |-> CacheGet(m.cache, filePath)]
     ELSE LET parsed == ParseCSVFile(d, filePath)
              m2 == [m1 EXCEPT !.parseLog = Append(@, filePath)]
          IN IF parsed.ok /\ config.enableCaching
             THEN LET cleaned == CleanupCache(CachePut(m.cache, filePath, parsed))
                  IN [m |-> [m2 EXCEPT !.cache = cleaned.cache,
                                       !.evictLog = @ \o cleaned.removed],
                      res |-> parsed]
             ELSE [m |-> m2, res |-> parsed]

\* loadFile that stores what parseCSVFile gave before it looks whether the
\* parse failed.
LoadFile_StoresFailure(m, d, filePath) ==
  LET m1 == [m EXCEPT !.loadLog = Append(@, filePath)]
  IN IF config.enableCaching /\ CacheHas(m.cache, filePath)
     THEN [m |-> m1, res |-> CacheGet(m.cache, filePath)]
     ELSE LET parsed == ParseCSVFile(d, filePath)
              m2 == [m1 EXCEPT !.parseLog = Append(@, filePath)]
          IN IF config.enableCaching
             THEN LET cleaned == CleanupCache(CachePut(m.cache, filePath, parsed))
                  IN [m |-> [m2 EXCEPT !.cache = cleaned.cache,
                                       !.evictLog = @ \o cleaned.removed],
                      res |-> parsed]
             ELSE [m |-> m2, res |-> parsed]

LoadFile(m, d, filePath) ==
  LET m1 == [m EXCEPT !.loadLog = Append(@, filePath)]
  IN IF config.enableCaching /\ CacheHas(m.cache, filePath)
     THEN [m |-> m1, res |-> CacheGet(m.cache, filePath)]
     ELSE LET parsed == ParseCSVFile(d, filePath)
              m2 == [m1 EXCEPT !.parseLog = Append(@, filePath)]
          IN IF parsed.ok /\ config.enableCaching
             THEN LET cleaned == CleanupCache(CachePut(m.cache, filePath, parsed))
                  IN [m |-> [m2 EXCEPT !.cache = cleaned.cache,
                                       !.evictLog = @ \o cleaned.removed],
                      res |-> parsed]
             ELSE [m |-> m2, res |-> parsed]

\* --------------------------------------------------------- loadAllFiles
\* acc is a loop's state: the manager, the value collected so far, and
\* whether an error has left the loop (no loop of the code lets one out).
LoopStart(m, out) == [m |-> m, out |-> out, thrown |-> FALSE]

\* The loop body of loadAllFiles without its try/catch.
LoadAllStep_Uncaught(acc, d, file) ==
  LET r == LoadFile(acc.m, d, file)
  IN IF r.res.ok
     THEN [acc EXCEPT !.m = r.m, !.out = Append(@, r.res)]
     ELSE [acc EXCEPT !.m = r.m, !.thrown = TRUE]

LoadAllStep(acc, d, file) ==
  LET r == LoadFile(acc.m, d, file)
  IN IF r.res.ok
     THEN [acc EXCEPT !.m = r.m, !.out = Append(@, r.res)]
     ELSE [acc EXCEPT !.m = r.m]

RECURSIVE LoadAllLoop(_, _, _, _)
LoadAllLoop(acc, d, files, i) ==
  IF i > Len(files) \/ acc.thrown THEN acc
  ELSE LoadAllLoop(LoadAllStep(acc, d, files[i]), d, files, i + 1)

LoadAllFiles(m, d) == LoadAllLoop(LoopStart(m, <<>>), d, DiscoverFiles(d), 1)

\* ------------------------------------------------------- getDataInRange
IsWithinInterval(t, interval) == interval.start <= t /\ t <= interval.end
GetHours(t) == t % HoursPerDay
StartOfDay(t) == (t \div HoursPerDay) * HoursPerDay
\* The last instant of t's day.
EndOfDay(t) == StartOfDay(t) + (HoursPerDay - 1)

\* fileOverlapsRange that lets every file through.
FileOverlapsRange_Always(fileDate, dateRange) == TRUE

FileOverlapsRange(fileDate, dateRange) ==
  StartOfDay(fileDate) <= dateRange.end /\ EndOfDay(fileDate) >= dateRange.start

\* The filter callback without the early-morning exclusion.
InRangeAndNotEarly_RangeOnly(point, dateRange) ==
  IsWithinInterval(point.timestamp, dateRange)

\* The filter callback of getDataInRange.
InRangeAndNotEarly(point, dateRange) ==
  LET isInRange == IsWithinInterval(point.timestamp, dateRange)
      isEarlyMorning == GetHours(point.timestamp) = 1
  IN isInRange /\ ~isEarlyMorning

RangeStep(acc, d, file, dateRange) ==
  LET r == LoadFile(acc.m, d, file)
      Keep(point) == InRangeAndNotEarly(point, dateRange)
  IN IF r.res.ok /\ FileOverlapsRange(r.res.date, dateRange)
     THEN [acc EXCEPT !.m = r.m, !.out = @ \o SelectSeq(r.res.data, Keep)]
     ELSE [acc EXCEPT !.m = r.m]

RECURSIVE RangeLoop(_, _, _, _, _)
RangeLoop(acc, d, files, i, dateRange) ==
  IF i > Len(files) \/ acc.thrown THEN acc
  ELSE RangeLoop(RangeStep(acc, d, files[i], dateRange), d, files, i + 1, dateRange)

\* Array.prototype.sort((a, b) => a.timestamp - b.timestamp): stable.
RECURSIVE InsertPoint(_, _)
InsertPoint(s, x) ==
  IF s = <<>> THEN <<x>>
  ELSE IF x.timestamp < Head(s).timestamp THEN <<x>> \o s
  ELSE <<Head(s)>> \o InsertPoint(Tail(s), x)

RECURSIVE SortByTimestamp(_)
SortByTimestamp(s) ==
  IF s = <<>> THEN <<>>
  ELSE InsertPoint(SortByTimestamp(SubSeq(s, 1, Len(s) - 1)), s[Len(s)])

\* Map.prototype.set: a new key goes last, a known key keeps its place and
\* takes the new value.
MapSet(map, k, v) ==
  IF \E i \in 1..Len(map) : map[i].key = k
  THEN [i \in 1..Len(map) |-> IF map[i].key = k THEN [key |-> k, value |-> v] ELSE map[i]]
  ELSE Append(map, [key |-> k, value |-> v])

\* A timestampMap keyed by position: nothing is deduplicated.
TimestampMap_ByPosition(sortedData) ==
  [i \in 1..Len(sortedData) |-> [key |-> i, value |-> sortedData[i]]]

\* A timestampMap that keeps the first point of each timestamp.
RECURSIVE TimestampMap_KeepFirst(_)
TimestampMap_KeepFirst(sortedData) ==
  IF sortedData = <<>> THEN <<>>
  ELSE LET point == sortedData[Len(sortedData)]
           map == TimestampMap_KeepFirst(SubSeq(sortedData, 1, Len(sortedData) - 1))
       IN IF \E i \in 1..Len(map) : map[i].key = point.timestamp THEN map
          ELSE Append(map, [key |-> point.timestamp, value |-> point])

\* The timestampMap after the loop over sortedData; the key of a point is
\* its timestamp's ISO string, one per instant.
RECURSIVE TimestampMap(_)
TimestampMap(sortedData) ==
  IF sortedData = <<>> THEN <<>>
  ELSE LET point == sortedData[Len(sortedData)]
       IN MapSet(TimestampMap(SubSeq(sortedData, 1, Len(sortedData) - 1)),
                 point.timestamp, point)

MapValues(map) == [i \in 1..Len(map) |-> map[i].value]

GetDataInRange(m, d, dateRange) ==
  LET acc == RangeLoop(LoopStart(m, <<>>), d, DiscoverFiles(d), 1, dateRange)
      sortedData == SortByTimestamp(acc.out)
      deduplicatedData == MapValues(TimestampMap(sortedData))
  IN [acc EXCEPT !.out = SortByTimestamp(deduplicatedData)]

\* --------------------------------------------------- getAvailableMetrics
MetricsStep(acc, d, file) ==
  LET r == LoadFile(acc.m, d, file)
  IN IF r.res.ok
     THEN [acc EXCEPT !.m = r.m,
                      !.out = @ \cup {r.res.columns[i] : i \in
                                       {j \in 1..Len(r.res.columns) :
                                          r.res.columns[j] \notin {"csvDate", "Date"}}}]
     ELSE [acc EXCEPT !.m = r.m]

RECURSIVE MetricsLoop(_, _, _, _)
MetricsLoop(acc, d, files, i) ==
  IF i > Len(files) \/ acc.thrown THEN acc
  ELSE MetricsLoop(MetricsStep(acc, d, files[i]), d, files, i + 1)

\* Array.from(allColumns).sort(); the files of the model have one metric.
GetAvailableMetrics(m, d) ==
  LET acc == MetricsLoop(LoopStart(m, {}), d, DiscoverFiles(d), 1)
  IN [acc EXCEPT !.out = SetToSeq(@)]

\* ---------------------------------------------------------- getDateRange
\* out is [minDate, maxDate], each <<>> for null or <<t>>.
DateRangeStep(acc, d, file) ==
  LET r == LoadFile(acc.m, d, file)
  IN IF r.res.ok /\ Len(r.res.data) > 0
     THEN LET fileMin == r.res.data[1].timestamp
              fileMax == r.res.data[Len(r.res.data)].timestamp
              minDate == acc.out.minDate
              maxDate == acc.out.maxDate
          IN [acc EXCEPT !.m = r.m,
                !.out = [minDate |-> IF minDate = <<>> \/ fileMin < minDate[1]
                                     THEN <<fileMin>> ELSE minDate,
                         maxDate |-> IF maxDate = <<>> \/ fileMax > maxDate[1]
                                     THEN <<fileMax>> ELSE maxDate]]
     ELSE [acc EXCEPT !.m = r.m]

RECURSIVE DateRangeLoop(_, _, _, _)
DateRangeLoop(acc, d, files, i) ==
  IF i > Len(files) \/ acc.thrown THEN acc
  ELSE DateRangeLoop(DateRangeStep(acc, d, files[i]), d, files, i + 1)

\* The value is <<>> for null, else <<[start, end]>>.
GetDateRange(m, d) ==
  LET files == DiscoverFiles(d)
      acc == DateRangeLoop(LoopStart(m, [minDate |-> <<>>, maxDate |-> <<>>]), d, files, 1)
  IN IF Len(files) = 0 THEN LoopStart(m, <<>>)
     ELSE IF acc.out.minDate = <<>> \/ acc.out.maxDate = <<>>
     THEN [acc EXCEPT !.out = <<>>]
     ELSE [acc EXCEPT !.out = <<[start |-> acc.out.minDate[1], end |-> acc.out.maxDate[1]]>>]

\* --------------------------------------------------------- getSampleData
\* point[metricName] for the one metric column of the model's files.
Metric(point, metricName) == IF metricName = METRIC THEN point.steps ELSE Null

SampleStep(acc, d, file, metricName, limit) ==
  LET r == LoadFile(acc.m, d, file)
      HasValue(point) == Metric(point, metricName) # Null
  IN IF r.res.ok
     THEN LET found == SelectSeq(r.res.data, HasValue)
              n == IF Len(found) < limit - Len(acc.out) THEN Len(found)
                   ELSE limit - Len(acc.out)
          IN [acc EXCEPT !.m = r.m,
                !.out = @ \o [i \in 1..n |->
                               [timestamp |-> found[i].timestamp,
                                value |-> Metric(found[i], metricName)]]]
     ELSE [acc EXCEPT !.m = r.m]

RECURSIVE SampleLoop(_, _, _, _, _, _)
SampleLoop(acc, d, files, i, metricName, limit) ==
  IF i > Len(files) \/ acc.thrown \/ Len(acc.out) >= limit THEN acc
  ELSE SampleLoop(SampleStep(acc, d, files[i], metricName, limit), d, files, i + 1,
                  metricName, limit)

GetSampleData(m, d, metricName, limit) ==
  SampleLoop(LoopStart(m, <<>>), d, DiscoverFiles(d), 1, metricName, limit)

\* ------------------------------------------------------------ the calls
DefaultSampleLimit == 10
SampleLimits == {1, DefaultSampleLimit}

\* No executeQuery call has run.
NoQuery == [called |-> FALSE]

Fresh ==
  /\ queryData = <<>>
  /\ lastQuery = NoQuery
  /\ queryResult = NoQuery
  /\ cache = <<>>
  /\ availableFiles = <<>>
  /\ lastCall = [op |-> "new", arg |-> <<>>]
  /\ lastResult = [ok |-> TRUE, value |-> <<>>]
  /\ loadLog = <<>>
  /\ parseLog = <<>>
  /\ evictLog = <<>>
  /\ callers = [c \in 1..MaxCallers |-> NoCall]

\* new HealthDataManager(config) over a directory of one-row files.
Init ==
  /\ disk \in PlainDisks
  /\ config \in Configs
  /\ Fresh

\* new HealthDataManager() over a directory of data files.
DataInit ==
  /\ disk \in DataDisks
  /\ config = DefaultConfig
  /\ Fresh

\* What a call leaves behind: m is the manager at its end.
Returns(op, arg, m, ok, value) ==
  /\ cache' = m.cache
  /\ loadLog' = m.loadLog
  /\ parseLog' = m.parseLog
  /\ evictLog' = m.evictLog
  /\ lastCall' = [op |-> op, arg |-> arg]
  /\ lastResult' = [ok |-> ok, value |-> value]
  /\ UNCHANGED <<disk, config, callers, queryVars>>

CallDiscoverFiles ==
  /\ availableFiles' = DiscoverFiles(disk)
  /\ Returns("discoverFiles", <<>>, Manager(cache), TRUE, DiscoverFiles(disk))

CallLoadFile(filePath) ==
  LET r == LoadFile(Manager(cache), disk, filePath)
  IN /\ Returns("loadFile", filePath, r.m, r.res.ok, r.res)
     /\ UNCHANGED availableFiles

CallLoadAllFiles ==
  LET acc == LoadAllFiles(Manager(cache), disk)
  IN /\ availableFiles' = DiscoverFiles(disk)
     /\ Returns("loadAllFiles", <<>>, acc.m, ~acc.thrown, acc.out)

CallGetDataInRange(dateRange) ==
  LET acc == GetDataInRange(Manager(cache), disk, dateRange)
  IN /\ availableFiles' = DiscoverFiles(disk)
     /\ Returns("getDataInRange", dateRange, acc.m, ~acc.thrown, acc.out)

CallGetAvailableMetrics ==
  LET acc == GetAvailableMetrics(Manager(cache), disk)
  IN /\ availableFiles' = DiscoverFiles(disk)
     /\ Returns("getAvailableMetrics", <<>>, acc.m, ~acc.thrown, acc.out)

CallGetDateRange ==
  LET acc == GetDateRange(Manager(cache), disk)
  IN /\ availableFiles' = DiscoverFiles(disk)
     /\ Returns("getDateRange", <<>>, acc.m, ~acc.thrown, acc.out)

CallGetSampleData(limit) ==
  LET acc == GetSampleData(Manager(cache), disk, METRIC, limit)
  IN /\ availableFiles' = DiscoverFiles(disk)
     /\ Returns("getSampleData", limit, acc.m, ~acc.thrown, acc.out)

CallClearCache ==
  /\ Returns("clearCache", <<>>, Manager(<<>>), TRUE, <<>>)
  /\ UNCHANGED availableFiles

CallGetCacheStats ==
  /\ Returns("getCacheStats", <<>>, Manager(cache), TRUE, GetCacheStats(cache))
  /\ UNCHANGED availableFiles


\* ======================================================================
\* The query engine
\* ======================================================================
MaxPoints == 2     \* records handed to executeQuery
DaysPerWeek == 7

\* ---------------------------------------------------- JavaScript values
\* A value is tagged with its type; n/d is the number (or the instant of a
\* Date, or what a string was formatted from), s the format of a string.
Num(n) == [t |-> "number", n |-> n, d |-> 1, s |-> ""]
DateV(i) == [t |-> "Date", n |-> i, d |-> 1, s |-> ""]
NullV == [t |-> "null", n |-> 0, d |-> 1, s |-> ""]
Undefined == [t |-> "undefined", n |-> 0, d |-> 1, s |-> ""]
NaN == [t |-> "NaN", n |-> 0, d |-> 1, s |-> ""]
EmptyString == [t |-> "string", n |-> 0, d |-> 1, s |-> ""]
\* The string that formatting v in format f gives.
Formatted(v, f) == [t |-> "string", n |-> v.n, d |-> v.d, s |-> f]

RECURSIVE GCD(_, _)
GCD(a, b) == IF b = 0 THEN a ELSE GCD(b, a % b)
\* The number a / b, for a >= 0 and b > 0.
Quotient(a, b) ==
  LET g == GCD(a, b) IN [t |-> "number", n |-> a \div g, d |-> b \div g, s |-> ""]

\* Number(v)
ToNumber(v) ==
  CASE v.t = "number" -> v
    [] v.t = "null" -> Num(0)
    [] v.t = "Date" -> Num(v.n)
    [] v.t = "string" /\ v.s = "" -> Num(0)
    [] v.t = "string" /\ v.s = "String" -> [v EXCEPT !.t = "number", !.s = ""]
    [] OTHER -> NaN

IsNaN(v) == v.t = "NaN"
\* !v
Falsy(v) ==
  \/ v.t \in {"null", "undefined", "NaN"}
  \/ v.t = "number" /\ v.n = 0
  \/ v.t = "string" /\ v.s = ""
\* v == null
IsNullish(v) == v.t \in {"null", "undefined"}
NumLess(a, b) == ~IsNaN(a) /\ ~IsNaN(b) /\ a.n * b.d < b.n * a.d
\* a < b for the values the model's records hold: numbers, Dates, and
\* strings formatted from them.
JsLess(a, b) == NumLess(ToNumber(a), ToNumber(b))

\* ---------------------------------------------- columns and records
\* A column expression as written in a query: `arg`, or `fn(arg)`, with
\* and in rest the text that follows it in the same string (` as total`, ` >`).
Col(name) == [fn |-> "", arg |-> name, rest |-> ""]
Call(fn, name) == [fn |-> fn, arg |-> name, rest |-> ""]
STAR == Col("*")
TIMESTAMP == Col("timestamp")
STEPS == Col(METRIC)
AggFns == {"SUM", "AVG", "MIN", "MAX", "COUNT"}

\* col.includes(fn + '(')
IncludesCall(col, fn) == col.fn = fn
\* col.match(/FN\((.+)\)/)?.[1], as a column
MetricName(col) == Col(col.arg)

\* point[col]
Get(point, col) == IF col \in DOMAIN point THEN point[col] ELSE Undefined
\* point with point[col] = v
Put(point, col, v) ==
  [c \in DOMAIN point \cup {col} |-> IF c = col THEN v ELSE point[c]]

\* The records of the model: a timestamp, and one metric that holds a
\* number, holds null, or is absent.
QueryStamps == {0, HoursPerDay}
Points ==
  {(TIMESTAMP :> DateV(i)) : i \in QueryStamps}
    \cup {(TIMESTAMP :> DateV(i)) @@ (STEPS :> v) :
            i \in QueryStamps, v \in {NullV} \cup {Num(n) : n \in 1..MaxVal}}

\* The records that are sorted and paged: the metric takes one value more.
MaxSortPoints == 3
SortPoints ==
  {(TIMESTAMP :> DateV(i)) : i \in QueryStamps}
    \cup {(TIMESTAMP :> DateV(i)) @@ (STEPS :> v) :
            i \in QueryStamps, v \in {NullV} \cup {Num(n) : n \in 1..(MaxVal + 1)}}

\* The records that are grouped by the metric: it holds 0, a number, null or
\* the empty string, or is absent.
KeyPoints ==
  {(TIMESTAMP :> DateV(i)) : i \in QueryStamps}
    \cup {(TIMESTAMP :> DateV(i)) @@ (STEPS :> v) :
            i \in QueryStamps, v \in {NullV, EmptyString} \cup {Num(n) : n \in 0..MaxVal}}

\* ------------------------------------------------------------ parseQuery
\* A query string, clause by clause: select is <<>> when the string has no
\* SELECT, from is <<>> when it has no FROM and <<"">> when no name follows
\* FROM, limit and offset are <<>> or <<n>>.
ParseError(message) == [ok |-> FALSE, code |-> "INVALID_QUERY", message |-> message]

\* An ORDER BY clause is written as a list of columns, each followed by
\* ASC, by DESC or by nothing.
ParseOrderByClause(orderByClause) ==
  [i \in 1..Len(orderByClause) |->
     [column |-> orderByClause[i].column,
      direction |-> IF orderByClause[i].direction = "DESC" THEN "DESC" ELSE "ASC"]]

\* A literal of a condition is written as text: a string value.
Literal(v) == Formatted(v, "String")

ParseValue(value) ==
  IF ~IsNaN(ToNumber(value)) THEN ToNumber(value) ELSE value

\* A condition is written as a column, an operator and, but for IS NULL and
\* IS NOT NULL, a literal; after IN, a list of literals in parentheses, which
\* stay the strings they were written as. The patterns are tried in order and the one for
\* `=` comes first: it matches `!=`, `>=` and `<=` too, and then takes the
\* operator's first character into the column.
ParseCondition(condition) ==
  CASE condition.operator \in {"IS NULL", "IS NOT NULL"} ->
         [column |-> condition.column, operator |-> condition.operator,
          value |-> NullV]
    [] condition.operator = "IN" ->
         [column |-> condition.column, operator |-> "IN", value |-> condition.value]
    [] condition.operator \in {"=", ">", "<"} ->
         [column |-> condition.column, operator |-> condition.operator,
          value |-> ParseValue(condition.value)]
    [] condition.operator = "!=" ->
         [column |-> [condition.column EXCEPT !.rest = " !"], operator |-> "!=",
          value |-> ParseValue(condition.value)]
    [] condition.operator = ">=" ->
         [column |-> [condition.column EXCEPT !.rest = " >"], operator |-> ">=",
          value |-> ParseValue(condition.value)]
    [] condition.operator = "<=" ->
         [column |-> [condition.column EXCEPT !.rest = " <"], operator |-> "<=",
          value |-> ParseValue(condition.value)]

\* A WHERE clause is written as conditions with the keywords AND and OR
\* between them; it is split at the keywords, whichever they are.
Keyword(word) == [keyword |-> word]
IsCondition(part) == "keyword" \notin DOMAIN part

ParseWhereClause(whereClause) ==
  LET parts == SelectSeq(whereClause, IsCondition)
  IN [i \in 1..Len(parts) |-> ParseCondition(parts[i])]

ParseQuery(query) ==
  LET selectMatch == query.select # <<>> /\ query.from # <<>>
      fromMatch == query.from # <<>> /\ query.from[1] # ""
  IN IF ~selectMatch THEN ParseError("Missing SELECT clause")
     ELSE IF ~fromMatch THEN ParseError("Missing FROM clause")
     ELSE [ok |-> TRUE,
           select |-> query.select,
           from |-> query.from[1],
           where |-> ParseWhereClause(query.where),
           groupBy |-> query.groupBy,
           orderBy |-> ParseOrderByClause(query.orderBy),
           limit |-> query.limit,
           offset |-> IF query.limit # <<>> THEN query.offset ELSE <<>>]

\* ---------------------------------------------------------- applyFilters
EvaluateFilter(point, filter) ==
  LET value == Get(point, filter.column)
  IN CASE filter.operator = "=" -> value = filter.value
       [] filter.operator = "!=" -> value # filter.value
       [] filter.operator = ">" -> NumLess(ToNumber(filter.value), ToNumber(value))
       [] filter.operator = "<" -> NumLess(ToNumber(value), ToNumber(filter.value))
       [] filter.operator = ">=" ->
            /\ ~IsNaN(ToNumber(value)) /\ ~IsNaN(ToNumber(filter.value))
            /\ ~NumLess(ToNumber(value), ToNumber(filter.value))
       [] filter.operator = "<=" ->
            /\ ~IsNaN(ToNumber(value)) /\ ~IsNaN(ToNumber(filter.value))
            /\ ~NumLess(ToNumber(filter.value), ToNumber(value))
       [] filter.operator = "IN" ->
            \E i \in 1..Len(filter.value) : filter.value[i] = value
       [] filter.operator = "IS NULL" -> IsNullish(value)
       [] filter.operator = "IS NOT NULL" -> ~IsNullish(value)
       [] OTHER -> FALSE

\* A filter that lets a record pass when some condition holds.
ApplyFilters_Some(data, filters) ==
  LET Passes(point) == \E i \in 1..Len(filters) : EvaluateFilter(point, filters[i])
  IN SelectSeq(data, Passes)

ApplyFilters(data, filters) ==
  LET Passes(point) == \A i \in 1..Len(filters) : EvaluateFilter(point, filters[i])
  IN SelectSeq(data, Passes)

\* ---------------------------------------------------------- applyGroupBy
\* The first instants of t's week and month: day 0 is taken to be a Sunday
\* and the first day of a month that holds every day of the model.
StartOfWeek(t) == ((t \div (DaysPerWeek * HoursPerDay)) * DaysPerWeek) * HoursPerDay
StartOfMonth(t) == 0

\* One part of a record's group key.
GroupKeyPart(point, col) ==
  LET timestamp == Get(point, TIMESTAMP).n
  IN CASE col = Call("DATE", "timestamp") ->
            Formatted(DateV(StartOfDay(timestamp)), "yyyy-MM-dd")
       [] col = Call("HOUR", "timestamp") ->
            Formatted(DateV(timestamp), "yyyy-MM-dd HH:00")
       [] col = Call("WEEK", "timestamp") ->
            Formatted(DateV(StartOfWeek(timestamp)), "yyyy-MM-dd")
       [] col = Call("MONTH", "timestamp") ->
            Formatted(DateV(StartOfMonth(timestamp)), "yyyy-MM-dd")
       [] col = Col("date") ->
            Formatted(DateV(StartOfDay(timestamp)), "yyyy-MM-dd")
       [] OTHER ->
            IF Falsy(Get(point, col)) THEN EmptyString
            ELSE Formatted(Get(point, col), "String")

GroupKey(point, groupByColumns) ==
  [i \in 1..Len(groupByColumns) |-> GroupKeyPart(point, groupByColumns[i])]

\* The groups Map after the loop over data: [key, points] in insertion order.
RECURSIVE Groups(_, _)
Groups(data, groupByColumns) ==
  IF data = <<>> THEN <<>>
  ELSE LET point == data[Len(data)]
           groups == Groups(SubSeq(data, 1, Len(data) - 1), groupByColumns)
           groupKey == GroupKey(point, groupByColumns)
       IN IF \E i \in 1..Len(groups) : groups[i].key = groupKey
          THEN [i \in 1..Len(groups) |->
                  IF groups[i].key = groupKey
                  THEN [groups[i] EXCEPT !.points = Append(@, point)]
                  ELSE groups[i]]
          ELSE Append(groups, [key |-> groupKey, points |-> <<point>>])

\* Number(point[metricName]) of each record, without the NaN ones.
NumericValues(groupData, metricName) ==
  LET numbers == [i \in 1..Len(groupData) |-> ToNumber(Get(groupData[i], metricName))]
      NotNaN(v) == ~IsNaN(v)
  IN SelectSeq(numbers, NotNaN)

RECURSIVE SumOf(_)
SumOf(values) ==
  IF values = <<>> THEN 0 ELSE values[1].n + SumOf(Tail(values))

RECURSIVE MinOf(_)
MinOf(values) ==
  IF Len(values) = 1 THEN values[1]
  ELSE LET rest == MinOf(Tail(values))
       IN IF NumLess(rest, values[1]) THEN rest ELSE values[1]

RECURSIVE MaxOf(_)
MaxOf(values) ==
  IF Len(values) = 1 THEN values[1]
  ELSE LET rest == MaxOf(Tail(values))
       IN IF NumLess(values[1], rest) THEN rest ELSE values[1]

\* sum + (Number(point[metricName]) || 0) over the group
SumOrZero(groupData, metricName) == SumOf(NumericValues(groupData, metricName))

\* aggregatedPoint after the branch for one SELECT expression.
Aggregate(aggregatedPoint, groupData, col, groupByColumns) ==
  LET metricName == MetricName(col)
      values == NumericValues(groupData, metricName)
      HasValue(point) == ~IsNullish(Get(point, metricName))
  IN CASE col = STAR -> groupData[1] @@ aggregatedPoint
       [] IncludesCall(col, "SUM") ->
            Put(aggregatedPoint, col, Num(SumOrZero(groupData, metricName)))
       [] IncludesCall(col, "AVG") ->
            Put(aggregatedPoint, col,
                IF Len(values) > 0 THEN Quotient(SumOf(values), Len(values)) ELSE Num(0))
       [] IncludesCall(col, "MIN") ->
            Put(aggregatedPoint, col, IF Len(values) > 0 THEN MinOf(values) ELSE Num(0))
       [] IncludesCall(col, "MAX") ->
            Put(aggregatedPoint, col, IF Len(values) > 0 THEN MaxOf(values) ELSE Num(0))
       [] IncludesCall(col, "COUNT") ->
            Put(aggregatedPoint, col, Num(Len(SelectSeq(groupData, HasValue))))
       [] \E i \in 1..Len(groupByColumns) : groupByColumns[i] = col ->
            Put(aggregatedPoint, col, Get(groupData[1], col))
       [] OTHER -> aggregatedPoint

RECURSIVE AggregatedPoint(_, _, _, _)
AggregatedPoint(groupData, selectColumns, n, groupByColumns) ==
  IF n = 0 THEN (TIMESTAMP :> Get(groupData[1], TIMESTAMP))
  ELSE Aggregate(AggregatedPoint(groupData, selectColumns, n - 1, groupByColumns),
                 groupData, selectColumns[n], groupByColumns)

ApplyGroupBy(data, groupByColumns, selectColumns) ==
  LET groups == Groups(data, groupByColumns)
  IN [i \in 1..Len(groups) |->
        AggregatedPoint(groups[i].points, selectColumns, Len(selectColumns),
                        groupByColumns)]

\* ---------------------------------------------------------- applyOrderBy
\* A comparator that turns only the comparisons of two defined values round.
RECURSIVE Compare_InvertDefinedOnly(_, _, _, _)
Compare_InvertDefinedOnly(a, b, orderByClause, k) ==
  IF k > Len(orderByClause) THEN 0
  ELSE LET aVal == Get(a, orderByClause[k].column)
           bVal == Get(b, orderByClause[k].column)
           desc == orderByClause[k].direction = "DESC"
           comparison ==
             IF ~IsNullish(aVal) /\ ~IsNullish(bVal)
             THEN IF JsLess(aVal, bVal) THEN (IF desc THEN 1 ELSE -1)
                  ELSE IF JsLess(bVal, aVal) THEN (IF desc THEN -1 ELSE 1) ELSE 0
             ELSE IF IsNullish(aVal) /\ ~IsNullish(bVal) THEN -1
             ELSE IF ~IsNullish(aVal) /\ IsNullish(bVal) THEN 1
             ELSE 0
       IN IF comparison # 0 THEN comparison
          ELSE Compare_InvertDefinedOnly(a, b, orderByClause, k + 1)

\* The comparator of applyOrderBy: -1, 0 or 1.
RECURSIVE Compare(_, _, _, _)
Compare(a, b, orderByClause, k) ==
  IF k > Len(orderByClause) THEN 0
  ELSE LET aVal == Get(a, orderByClause[k].column)
           bVal == Get(b, orderByClause[k].column)
           comparison ==
             IF ~IsNullish(aVal) /\ ~IsNullish(bVal)
             THEN IF JsLess(aVal, bVal) THEN -1 ELSE IF JsLess(bVal, aVal) THEN 1 ELSE 0
             ELSE IF IsNullish(aVal) /\ ~IsNullish(bVal) THEN -1
             ELSE IF ~IsNullish(aVal) /\ IsNullish(bVal) THEN 1
             ELSE 0
       IN IF comparison # 0
          THEN IF orderByClause[k].direction = "DESC" THEN -comparison ELSE comparison
          ELSE Compare(a, b, orderByClause, k + 1)

\* A sort that puts a record before the records it ties with.
RECURSIVE InsertByOrder_BeforeEquals(_, _, _)
InsertByOrder_BeforeEquals(s, x, orderByClause) ==
  IF s = <<>> THEN <<x>>
  ELSE IF Compare(x, Head(s), orderByClause, 1) <= 0 THEN <<x>> \o s
  ELSE <<Head(s)>> \o InsertByOrder_BeforeEquals(Tail(s), x, orderByClause)

\* Array.prototype.sort(comparator): stable.
RECURSIVE InsertByOrder(_, _, _)
InsertByOrder(s, x, orderByClause) ==
  IF s = <<>> THEN <<x>>
  ELSE IF Compare(x, Head(s), orderByClause, 1) < 0 THEN <<x>> \o s
  ELSE <<Head(s)>> \o InsertByOrder(Tail(s), x, orderByClause)

RECURSIVE ApplyOrderBy(_, _)
ApplyOrderBy(data, orderByClause) ==
  IF data = <<>> THEN <<>>
  ELSE InsertByOrder(ApplyOrderBy(SubSeq(data, 1, Len(data) - 1), orderByClause),
                     data[Len(data)], orderByClause)

\* ---------------------------------------------------------- formatResult
\* A slice that ends one row early.
Slice_EndsEarly(s, from, to) ==
  LET last == IF to - 1 < Len(s) THEN to - 1 ELSE Len(s)
  IN IF from >= last THEN <<>> ELSE SubSeq(s, from + 1, last)

\* result.slice(offset, offset + limit)
Slice(s, from, to) ==
  LET last == IF to < Len(s) THEN to ELSE Len(s)
  IN IF from >= last THEN <<>> ELSE SubSeq(s, from + 1, last)

\* The keys of all records but timestamp, sorted; the model's records have
\* one such key at most.
AllColumns(data) ==
  SetToSeq((UNION {DOMAIN data[i] : i \in 1..Len(data)}) \ {TIMESTAMP})

SummaryOf(data, col) ==
  LET values == NumericValues(data, col)
  IN [count |-> Num(Len(values)),
      sum |-> Num(SumOf(values)),
      avg |-> Quotient(SumOf(values), Len(values)),
      min |-> MinOf(values),
      max |-> MaxOf(values)]

\* A formatResult with no early return for no records.
FormatResult_NoEarlyReturn(data, selectColumns, options) ==
  LET columns ==
        IF \E i \in 1..Len(selectColumns) : selectColumns[i] = STAR
        THEN <<TIMESTAMP>> \o AllColumns(data)
        ELSE selectColumns
      CsvCell(value) ==
        IF value.t = "Date" THEN Formatted(value, "yyyy-MM-dd HH:mm:ss")
        ELSE IF IsNullish(value) THEN EmptyString
        ELSE Formatted(value, "String")
      JsonCell(value) ==
        IF value.t = "Date" THEN Formatted(value, "ISO") ELSE value
      summarised ==
        {c \in {columns[i] : i \in 1..Len(columns)} :
           c # TIMESTAMP /\ Len(NumericValues(data, c)) > 0}
  IN [columns |-> columns,
      rows |->
        CASE options.format = "csv" ->
               [r \in 1..Len(data) |->
                  [i \in 1..Len(columns) |-> CsvCell(Get(data[r], columns[i]))]]
          [] options.format = "summary" ->
               <<[c \in summarised |-> SummaryOf(data, c)]>>
          [] OTHER ->
               [r \in 1..Len(data) |->
                  [i \in 1..Len(columns) |-> JsonCell(Get(data[r], columns[i]))]]]

FormatResult(data, selectColumns, options) ==
  LET columns ==
        IF \E i \in 1..Len(selectColumns) : selectColumns[i] = STAR
        THEN <<TIMESTAMP>> \o AllColumns(data)
        ELSE selectColumns
      CsvCell(value) ==
        IF value.t = "Date" THEN Formatted(value, "yyyy-MM-dd HH:mm:ss")
        ELSE IF IsNullish(value) THEN EmptyString
        ELSE Formatted(value, "String")
      JsonCell(value) ==
        IF value.t = "Date" THEN Formatted(value, "ISO") ELSE value
      summarised ==
        {c \in {columns[i] : i \in 1..Len(columns)} :
           c # TIMESTAMP /\ Len(NumericValues(data, c)) > 0}
  IN IF Len(data) = 0 THEN [columns |-> <<>>, rows |-> <<>>]
     ELSE [columns |-> columns,
           rows |->
             CASE options.format = "csv" ->
                    [r \in 1..Len(data) |->
                       [i \in 1..Len(columns) |-> CsvCell(Get(data[r], columns[i]))]]
               [] options.format = "summary" ->
                    <<[c \in summarised |-> SummaryOf(data, c)]>>
               [] OTHER ->
                    [r \in 1..Len(data) |->
                       [i \in 1..Len(columns) |-> JsonCell(Get(data[r], columns[i]))]]]

\* ---------------------------------------------------------- executeQuery
\* The caller's array after the call, and what the call returns or throws.
ExecuteQuery(data, query, options) ==
  LET parsedQuery == ParseQuery(query)
      filtered ==
        IF Len(parsedQuery.where) > 0 THEN ApplyFilters(data, parsedQuery.where)
        ELSE data
      grouped ==
        IF Len(parsedQuery.groupBy) > 0
        THEN ApplyGroupBy(filtered, parsedQuery.groupBy, parsedQuery.select)
        ELSE filtered
      sorted ==
        IF Len(parsedQuery.orderBy) > 0 THEN ApplyOrderBy(grouped, parsedQuery.orderBy)
        ELSE grouped
      \* Array.prototype.sort works in place: with no WHERE and no GROUP BY
      \* the array it sorts is the caller's.
      sortsInput ==
        /\ Len(parsedQuery.orderBy) > 0
        /\ Len(parsedQuery.where) = 0
        /\ Len(parsedQuery.groupBy) = 0
      limit == IF parsedQuery.limit # <<>> THEN parsedQuery.limit[1] ELSE 0
      offset == IF parsedQuery.offset # <<>> THEN parsedQuery.offset[1] ELSE 0
      paged == IF limit # 0 THEN Slice(sorted, offset, offset + limit) ELSE sorted
      formattedResult == FormatResult(paged, parsedQuery.select, options)
  IN IF ~parsedQuery.ok
     THEN [data |-> data,
           result |-> [ok |-> FALSE,
                       code |-> "QUERY_EXECUTION_FAILED",
                       message |-> <<"Query execution failed: ", parsedQuery.message>>,
                       details |-> parsedQuery.code]]
     ELSE [data |-> IF sortsInput THEN sorted ELSE data,
           result |-> [ok |-> TRUE,
                       columns |-> formattedResult.columns,
                       rows |-> formattedResult.rows,
                       rowCount |-> Len(formattedResult.rows)]]

\* ------------------------------------------------------------ the calls
\* The queries of the model: a SELECT list over the one source, and at most
\* one further clause.
SelectLists ==
  {<<STAR>>, <<STEPS>>, <<Call("MIN", METRIC), Call("MAX", METRIC)>>,
   <<Call("DATE", "timestamp"), Call("SUM", METRIC)>>}
    \cup {<<Call(fn, METRIC)>> : fn \in AggFns}
WhereClauses ==
  {<<>>, <<[column |-> STEPS, operator |-> ">", value |-> Literal(Num(0))]>>}
GroupByClauses == {<<>>, <<Call("DATE", "timestamp")>>}
OrderByClauses == {<<>>, <<[column |-> STEPS, direction |-> "DESC"]>>}
LimitClauses == {<<>>, <<1>>}

QueryTexts ==
  {q \in [select : SelectLists \cup {<<>>},
          from : {<<>>, <<"">>, <<"health_data">>},
          where : WhereClauses,
          groupBy : GroupByClauses,
          orderBy : OrderByClauses,
          limit : LimitClauses,
          offset : {<<>>}] :
     /\ Cardinality({c \in {"where", "groupBy", "orderBy", "limit"} : q[c] # <<>>}) <= 1
     /\ (q.select = <<>> \/ q.from # <<"health_data">>) =>
          (q.where = <<>> /\ q.groupBy = <<>> /\ q.orderBy = <<>> /\ q.limit = <<>>)}

\* csv and summary output is asked of the queries with no further clause.
Calls ==
  {c \in [query : QueryTexts, options : [format : {"json", "csv", "summary"}]] :
     c.options.format # "json" =>
       (c.query.where = <<>> /\ c.query.groupBy = <<>> /\ c.query.orderBy = <<>>
          /\ c.query.limit = <<>>)}

\* A query over the one source, clause by clause.
Query(select, where, groupBy, orderBy, limit, offset) ==
  [select |-> select, from |-> <<"health_data">>, where |-> where,
   groupBy |-> groupBy, orderBy |-> orderBy, limit |-> limit, offset |-> offset]

\* The conditions `column OP literal`, with literals below, among and above
\* the values the records hold.
ComparisonOps == {"=", "!=", ">", "<", ">=", "<="}
Comparisons ==
  {[column |-> STEPS, operator |-> op, value |-> Literal(Num(v))] :
     op \in ComparisonOps, v \in 0..(MaxVal + 1)}

\* The conditions `column IN (literal, ...)`.
InLists ==
  {<<Literal(Num(v))>> : v \in 0..(MaxVal + 1)}
    \cup {<<Literal(Num(0)), Literal(Num(v))>> : v \in 1..(MaxVal + 1)}
Memberships == {[column |-> STEPS, operator |-> "IN", value |-> l] : l \in InLists}

\* Two conditions joined by AND or by OR.
JoinedConditions ==
  {[column |-> STEPS, operator |-> ">", value |-> Literal(Num(0))],
   [column |-> STEPS, operator |-> "=", value |-> Literal(Num(1))],
   [column |-> STEPS, operator |-> ">=", value |-> Literal(Num(1))],
   [column |-> TIMESTAMP, operator |-> ">", value |-> Literal(Num(0))],
   [column |-> TIMESTAMP, operator |-> "<", value |-> Literal(Num(1))]}
JoinedQueries ==
  {Query(<<STAR>>, <<c1, Keyword(word), c2>>, <<>>, <<>>, <<>>, <<>>) :
     c1 \in JoinedConditions, c2 \in JoinedConditions, word \in {"AND", "OR"}}

\* SELECT * with a WHERE clause.
FilterQueries ==
  {Query(<<STAR>>, <<c>>, <<>>, <<>>, <<>>, <<>>) : c \in Comparisons}
MembershipQueries ==
  {Query(<<STAR>>, <<c>>, <<>>, <<>>, <<>>, <<>>) : c \in Memberships}

\* The ORDER BY clauses: one key, or two, each followed by ASC, by DESC or by
\* nothing.
OrderBy(column, direction) == [column |-> column, direction |-> direction]
OrderByLists ==
  {<<OrderBy(STEPS, d)>> : d \in {"", "ASC", "DESC"}}
    \cup {<<OrderBy(STEPS, d1), OrderBy(TIMESTAMP, d2)>> : d1, d2 \in {"ASC", "DESC"}}
    \cup {<<OrderBy(TIMESTAMP, d1), OrderBy(STEPS, d2)>> : d1, d2 \in {"ASC", "DESC"}}
OrderQueries == {Query(<<STAR>>, <<>>, <<>>, o, <<>>, <<>>) : o \in OrderByLists}

\* LIMIT n, with no OFFSET, OFFSET 1 or an OFFSET of the most records there
\* are, behind a query with or without WHERE, GROUP BY and ORDER BY.
PagedQueries ==
  {Query(<<TIMESTAMP, STEPS>>, <<>>, <<>>, <<>>, <<>>, <<>>),
   Query(<<TIMESTAMP, STEPS>>, <<>>, <<>>, <<OrderBy(STEPS, "DESC")>>, <<>>, <<>>),
   Query(<<TIMESTAMP, STEPS>>,
         <<[column |-> STEPS, operator |-> ">", value |-> Literal(Num(0))]>>,
         <<>>, <<OrderBy(STEPS, "ASC")>>, <<>>, <<>>),
   Query(<<Call("COUNT", METRIC)>>, <<>>, <<Call("DATE", "timestamp")>>,
         <<>>, <<>>, <<>>)}
PageQueries ==
  {[q EXCEPT !.limit = <<n>>, !.offset = m] :
     q \in PagedQueries, n \in 1..(MaxSortPoints - 1),
     m \in {<<>>, <<1>>, <<MaxSortPoints>>}}

\* `expr as alias`, as one SELECT column.
As(col, alias) == [col EXCEPT !.rest = alias]

\* GROUP BY DATE(timestamp) behind aggregates, plain or under an alias, and
\* an ORDER BY on the alias.
GroupSelectLists ==
  {<<Call(fn, METRIC)>> : fn \in AggFns}
    \cup {<<Call("AVG", METRIC), Call("MIN", METRIC)>>,
          <<As(Call("DATE", "timestamp"), " as date"),
            As(Call("SUM", METRIC), " as total")>>}
GroupQueries ==
  {Query(select, <<>>, <<Call("DATE", "timestamp")>>, <<>>, <<>>, <<>>) :
     select \in GroupSelectLists}
    \cup {Query(<<As(Call("DATE", "timestamp"), " as date"),
                  As(Call("SUM", METRIC), " as total")>>,
                <<>>, <<Call("DATE", "timestamp")>>, <<OrderBy(Col("total"), d)>>,
                <<>>, <<>>) : d \in {"ASC", "DESC"}}

\* GROUP BY the metric, alone or behind DATE(timestamp), and GROUP BY one of
\* the time buckets with the bucket in the SELECT list.
TimeBuckets == {"DATE", "HOUR", "WEEK", "MONTH"}
KeyQueries ==
  {Query(<<STEPS>>, <<>>, <<STEPS>>, <<>>, <<>>, <<>>),
   Query(<<STEPS, Call("COUNT", METRIC)>>, <<>>, <<STEPS>>, <<>>, <<>>, <<>>),
   Query(<<Call("DATE", "timestamp"), STEPS>>, <<>>,
         <<Call("DATE", "timestamp"), STEPS>>, <<>>, <<>>, <<>>)}
    \cup {Query(<<Call(fn, "timestamp"), Call("SUM", METRIC)>>, <<>>,
                <<Call(fn, "timestamp")>>, <<>>, <<>>, <<>>) : fn \in TimeBuckets}

\* LIMIT n for every n a caller's array can hold, 0 too.
LimitQueries ==
  {Query(<<STAR>>, <<>>, <<>>, o, <<n>>, <<>>) :
     o \in {<<>>, <<OrderBy(STEPS, "ASC")>>}, n \in 0..MaxPoints}
LimitCalls == [query : LimitQueries, options : [format : {"json", "csv"}]]

\* A QueryEngine and a caller's array of records.
QueryInit ==
  /\ disk = <<>>
  /\ config = DefaultConfig
  /\ queryData \in SeqsUpTo(Points, MaxPoints)
  /\ lastQuery = NoQuery
  /\ queryResult = NoQuery
  /\ cache = <<>>
  /\ availableFiles = <<>>
  /\ lastCall = [op |-> "new", arg |-> <<>>]
  /\ lastResult = [ok |-> TRUE, value |-> <<>>]
  /\ loadLog = <<>>
  /\ parseLog = <<>>
  /\ evictLog = <<>>
  /\ callers = [c \in 1..MaxCallers |-> NoCall]

\* A QueryEngine and an array of records to sort and page.
OrderInit ==
  /\ disk = <<>>
  /\ config = DefaultConfig
  /\ queryData \in SeqsUpTo(SortPoints, MaxSortPoints)
  /\ lastQuery = NoQuery
  /\ queryResult = NoQuery
  /\ cache = <<>>
  /\ availableFiles = <<>>
  /\ lastCall = [op |-> "new", arg |-> <<>>]
  /\ lastResult = [ok |-> TRUE, value |-> <<>>]
  /\ loadLog = <<>>
  /\ parseLog = <<>>
  /\ evictLog = <<>>
  /\ callers = [c \in 1..MaxCallers |-> NoCall]

\* A QueryEngine and an array of records to group by the metric.
KeyInit ==
  /\ disk = <<>>
  /\ config = DefaultConfig
  /\ queryData \in SeqsUpTo(KeyPoints, MaxPoints)
  /\ lastQuery = NoQuery
  /\ queryResult = NoQuery
  /\ cache = <<>>
  /\ availableFiles = <<>>
  /\ lastCall = [op |-> "new", arg |-> <<>>]
  /\ lastResult = [ok |-> TRUE, value |-> <<>>]
  /\ loadLog = <<>>
  /\ parseLog = <<>>
  /\ evictLog = <<>>
  /\ callers = [c \in 1..MaxCallers |-> NoCall]

CallExecuteQuery(query, options) ==
  LET r == ExecuteQuery(queryData, query, options)
  IN /\ queryData' = r.data
     /\ lastQuery' = [called |-> TRUE, query |-> query, options |-> options]
     /\ queryResult' = r.result
     /\ UNCHANGED storeVars

Next ==
  \/ CallDiscoverFiles
  \/ \E filePath \in Paths : CallLoadFile(filePath)
  \/ CallLoadAllFiles
  \/ \E dateRange \in DateRanges : CallGetDataInRange(dateRange)
  \/ CallGetAvailableMetrics
  \/ CallGetDateRange
  \/ \E limit \in SampleLimits : CallGetSampleData(limit)
  \/ CallClearCache
  \/ CallGetCacheStats

Spec == Init /\ [][Next]_vars

\* Range reads over a directory of data files, with single loads and cache
\* clears in between.
DataNext ==
  \/ \E dateRange \in DateRanges : CallGetDataInRange(dateRange)
  \/ \E filePath \in Paths : CallLoadFile(filePath)
  \/ CallClearCache

DataSpec == DataInit /\ [][DataNext]_vars

\* ------------------------------------------------ calls that overlap
\* A call runs up to its next await in one step; between two steps of one
\* call the steps of the others may run.
LoopOps == {"loadAllFiles", "getDataInRange", "getAvailableMetrics", "getDateRange"}

\* What a step of a call leaves behind.
Steps(c, op, arg, next, ok, value, loaded, parsed, removed) ==
  /\ callers' = [callers EXCEPT ![c] = next]
  /\ lastCall' = [op |-> op, arg |-> arg]
  /\ lastResult' = [ok |-> ok, value |-> value]
  /\ loadLog' = loaded
  /\ parseLog' = parsed
  /\ evictLog' = removed
  /\ UNCHANGED <<disk, config, queryVars>>

\* loadFile(filePath) is called.
BeginLoadFile(c, filePath) ==
  /\ callers[c] = NoCall
  /\ Steps(c, "loadFile", filePath, [NoCall EXCEPT !.todo = <<filePath>>],
           TRUE, <<>>, <<>>, <<>>, <<>>)
  /\ UNCHANGED <<cache, availableFiles>>

\* One of the loops over every discovered file is called and has awaited
\* discoverFiles().
BeginLoop(c, op) ==
  /\ callers[c] = NoCall
  /\ availableFiles' = DiscoverFiles(disk)
  /\ Steps(c, op, <<>>, [NoCall EXCEPT !.todo = DiscoverFiles(disk)],
           TRUE, <<>>, <<>>, <<>>, <<>>)
  /\ UNCHANGED cache

BeginGetSampleData(c, limit) ==
  /\ callers[c] = NoCall
  /\ availableFiles' = DiscoverFiles(disk)
  /\ Steps(c, "getSampleData", limit,
           IF DiscoverFiles(disk) = <<>> THEN NoCall
           ELSE [todo |-> DiscoverFiles(disk), parsing |-> FALSE, want |-> limit],
           TRUE, <<>>, <<>>, <<>>, <<>>)
  /\ UNCHANGED cache

\* The call after loadFile gave it `file` (or threw): on to the next file,
\* fewer samples wanted.
Loaded(call, file) ==
  LET HasValue(point) == Metric(point, METRIC) # Null
      found == IF file.ok THEN Len(SelectSeq(file.data, HasValue)) ELSE 0
      want == IF call.want = Null THEN Null
              ELSE IF found < call.want THEN call.want - found ELSE 0
  IN IF Len(call.todo) = 1 THEN NoCall
     ELSE [todo |-> Tail(call.todo), parsing |-> FALSE, want |-> want]

\* The loop's break test and loadFile up to its await: the cache check and,
\* on a miss, the call of parseCSVFile.
CheckCache(c) ==
  LET call == callers[c]
      filePath == Head(call.todo)
  IN /\ call.todo # <<>>
     /\ ~call.parsing
     /\ UNCHANGED <<cache, availableFiles>>
     /\ IF call.want = 0
        THEN Steps(c, "getSampleData", <<>>, NoCall, TRUE, <<>>, <<>>, <<>>, <<>>)
        ELSE IF config.enableCaching /\ CacheHas(cache, filePath)
        THEN Steps(c, "loadFile", filePath, Loaded(call, CacheGet(cache, filePath)),
                   TRUE, CacheGet(cache, filePath), <<filePath>>, <<>>, <<>>)
        ELSE Steps(c, "loadFile", filePath, [call EXCEPT !.parsing = TRUE],
                   TRUE, <<>>, <<filePath>>, <<filePath>>, <<>>)

\* loadFile that, after its await, stores the file and leaves the cleanup out.
ResumeLoadFile_StoreOnly(c) ==
  LET call == callers[c]
      filePath == Head(call.todo)
      parsed == ParseCSVFile(disk, filePath)
  IN /\ call.parsing
     /\ UNCHANGED availableFiles
     /\ cache' = IF parsed.ok /\ config.enableCaching
                 THEN CachePut(cache, filePath, parsed) ELSE cache
     /\ Steps(c, "loadFile", filePath, Loaded(call, parsed), parsed.ok, parsed,
              <<>>, <<>>, <<>>)

\* loadFile from its await on: parseCSVFile has settled.
ResumeLoadFile(c) ==
  LET call == callers[c]
      filePath == Head(call.todo)
      parsed == ParseCSVFile(disk, filePath)
      cleaned == CleanupCache(CachePut(cache, filePath, parsed))
  IN /\ call.parsing
     /\ UNCHANGED availableFiles
     /\ IF parsed.ok /\ config.enableCaching
        THEN /\ cache' = cleaned.cache
             /\ Steps(c, "loadFile", filePath, Loaded(call, parsed), TRUE, parsed,
                      <<>>, <<>>, cleaned.removed)
        ELSE /\ cache' = cache
             /\ Steps(c, "loadFile", filePath, Loaded(call, parsed), parsed.ok, parsed,
                      <<>>, <<>>, <<>>)

\* Two files in the directory, a cache that holds at most one of them.
OverlapDisks ==
  {d \in PlainDisks : DOMAIN d = {q \in Paths : q.kind = "hyphen"}}
OverlapConfigs == {c \in Configs : c.enableCaching}

OverlapInit ==
  /\ disk \in OverlapDisks
  /\ config \in OverlapConfigs
  /\ Fresh

OverlapNext ==
  \E c \in 1..MaxCallers :
    \/ \E filePath \in Paths : BeginLoadFile(c, filePath)
    \/ \E op \in LoopOps : BeginLoop(c, op)
    \/ BeginGetSampleData(c, 1)
    \/ CheckCache(c)
    \/ ResumeLoadFile(c)

OverlapSpec == OverlapInit /\ [][OverlapNext]_vars

\* Single loads against a cache smaller than the directory.
MaxCacheFiles == 3
CacheDisks ==
  UNION {[S -> {<<GoodRow>>}] :
           S \in {T \in SUBSET Paths : Cardinality(T) = MaxCacheFiles}}
CacheConfigs == [cacheSize : 1..(MaxCacheFiles - 1), enableCaching : {TRUE}]

\* new HealthDataManager(config) over a directory larger than the cache.
CacheInit ==
  /\ disk \in CacheDisks
  /\ config \in CacheConfigs
  /\ Fresh

CacheNext ==
  \/ \E filePath \in Paths : CallLoadFile(filePath)
  \/ CallClearCache
  \/ CallGetCacheStats

CacheSpec == CacheInit /\ [][CacheNext]_vars

\* Queries over one array of records.
QueryNext == \E c \in Calls : CallExecuteQuery(c.query, c.options)

QuerySpec == QueryInit /\ [][QueryNext]_vars

\* Filtering queries over one array of records.
FilterNext ==
  \/ \E q \in FilterQueries : CallExecuteQuery(q, [format |-> "json"])
  \/ \E q \in MembershipQueries : CallExecuteQuery(q, [format |-> "json"])
  \/ \E q \in JoinedQueries : CallExecuteQuery(q, [format |-> "json"])

FilterSpec == QueryInit /\ [][FilterNext]_vars

\* Sorting queries over one array of records.
OrderNext == \E q \in OrderQueries : CallExecuteQuery(q, [format |-> "json"])

OrderSpec == OrderInit /\ [][OrderNext]_vars

\* Grouping queries over one array of records.
GroupNext == \E q \in GroupQueries : CallExecuteQuery(q, [format |-> "json"])

GroupSpec == OrderInit /\ [][GroupNext]_vars

\* Queries that group by the metric or select a time bucket.
KeyNext == \E q \in KeyQueries : CallExecuteQuery(q, [format |-> "json"])

KeySpec == KeyInit /\ [][KeyNext]_vars

\* LIMIT queries over one array of records.
LimitNext == \E c \in LimitCalls : CallExecuteQuery(c.query, c.options)

LimitSpec == QueryInit /\ [][LimitNext]_vars

\* Paging queries over one array of records.
PageNext == \E q \in PageQueries : CallExecuteQuery(q, [format |-> "json"])

PageSpec == OrderInit /\ [][PageNext]_vars


\* ======================================================================
\* The claims about the time-series store
\* ======================================================================

\* What the claims say of the files, stated from the disk alone.
Dated(p) == p.kind \in {"hyphen", "compact"}
Loadable(d, p) ==
  /\ p \in DOMAIN d
  /\ Dated(p)
  /\ \A i \in 1..Len(d[p]) : d[p][i].csvDate # BadStamp
DayOverlaps(day, range) ==
  day * HoursPerDay <= range.end /\ day * HoursPerDay + (HoursPerDay - 1) >= range.start
\* Row i of file p is one a range read is to return.
Survives(d, p, i, range) ==
  /\ Loadable(d, p)
  /\ DayOverlaps(p.day, range)
  /\ i \in 1..Len(d[p])
  /\ range.start <= d[p][i].csvDate /\ d[p][i].csvDate <= range.end
  /\ d[p][i].csvDate % HoursPerDay # 1
AsPoint(row) == [timestamp |-> row.csvDate, steps |-> row.steps]
AggregateOps ==
  {"loadAllFiles", "getDataInRange", "getAvailableMetrics", "getDateRange",
   "getSampleData"}

\* C1: with caching enabled, after every call that ran loadFile the cache
\* holds at most config.cacheSize entries.
C1_CacheWithinCapacity ==
  (config.enableCaching /\ loadLog # <<>>) =>
    GetCacheStats(cache).size <= config.cacheSize

\* A loadFile that filled the cache to a capacity of at least one and had to
\* delete an entry for it.
C1_Witness ==
  /\ config.enableCaching
  /\ lastCall.op = "loadFile"
  /\ config.cacheSize >= 1
  /\ evictLog # <<>>
  /\ GetCacheStats(cache).size = config.cacheSize

\* C2: the records getDataInRange returns are in strictly ascending
\* timestamp order, so no two of them share a timestamp.
C2_StrictlyAscending ==
  lastCall.op = "getDataInRange" =>
    \A i, j \in 1..Len(lastResult.value) :
      i < j => lastResult.value[i].timestamp < lastResult.value[j].timestamp

\* A range read that returned something although two of the rows it was to
\* return share a timestamp.
C2_Witness ==
  /\ lastCall.op = "getDataInRange"
  /\ lastResult.value # <<>>
  /\ \E p, q \in DOMAIN disk : \E i \in 1..Len(disk[p]), j \in 1..Len(disk[q]) :
       /\ <<p, i>> # <<q, j>>
       /\ Survives(disk, p, i, lastCall.arg)
       /\ Survives(disk, q, j, lastCall.arg)
       /\ disk[p][i].csvDate = disk[q][j].csvDate

\* C3: of the surviving rows that share a timestamp, getDataInRange returns
\* the one observed last: from the file that sorts last, and in it the
\* last such row.
C3_LastObservedWins ==
  lastCall.op = "getDataInRange" =>
    \A k \in 1..Len(lastResult.value) :
      \E p \in DOMAIN disk : \E i \in 1..Len(disk[p]) :
        /\ Survives(disk, p, i, lastCall.arg)
        /\ AsPoint(disk[p][i]) = lastResult.value[k]
        /\ \A q \in DOMAIN disk : \A j \in 1..Len(disk[q]) :
             (Survives(disk, q, j, lastCall.arg) /\ disk[q][j].csvDate = disk[p][i].csvDate)
               => (PathLess(q, p) \/ (q = p /\ j <= i))

\* A range read over two surviving rows of one timestamp and different
\* values.
C3_Witness ==
  /\ lastCall.op = "getDataInRange"
  /\ \E p, q \in DOMAIN disk : \E i \in 1..Len(disk[p]), j \in 1..Len(disk[q]) :
       /\ <<p, i>> # <<q, j>>
       /\ Survives(disk, p, i, lastCall.arg)
       /\ Survives(disk, q, j, lastCall.arg)
       /\ disk[p][i].csvDate = disk[q][j].csvDate
       /\ disk[p][i].steps # disk[q][j].steps

\* C4: getDataInRange passes to loadFile, and so to parseCSVFile, only
\* files whose day overlaps the requested range.
C4_LoadsOnlyOverlapping ==
  lastCall.op = "getDataInRange" =>
    /\ \A i \in 1..Len(loadLog) :
         Dated(loadLog[i]) => DayOverlaps(loadLog[i].day, lastCall.arg)
    /\ \A i \in 1..Len(parseLog) :
         Dated(parseLog[i]) => DayOverlaps(parseLog[i].day, lastCall.arg)

\* C5: a timestamp is in the result of getDataInRange exactly when a
\* loadable file whose day overlaps the range holds it, it lies in the
\* range, and its local hour is not 1.
C5_ExactlyTheSurvivors ==
  lastCall.op = "getDataInRange" =>
    \A t \in Stamps :
      (\E k \in 1..Len(lastResult.value) : lastResult.value[k].timestamp = t)
        <=> (\E p \in DOMAIN disk : \E i \in 1..Len(disk[p]) :
               Survives(disk, p, i, lastCall.arg) /\ disk[p][i].csvDate = t)

\* A range read that returned a record and left out an hour-1 record of the
\* range, held by a loadable file whose day overlaps the range.
C5_Witness ==
  /\ lastCall.op = "getDataInRange"
  /\ lastResult.value # <<>>
  /\ \E p \in DOMAIN disk : \E i \in 1..Len(disk[p]) :
       /\ Loadable(disk, p)
       /\ DayOverlaps(p.day, lastCall.arg)
       /\ lastCall.arg.start <= disk[p][i].csvDate
       /\ disk[p][i].csvDate <= lastCall.arg.end
       /\ disk[p][i].csvDate % HoursPerDay = 1

\* C6: discoverFiles returns every matching file of the directory once, in
\* ascending order.
C6_DiscoverDistinctSorted ==
  lastCall.op = "discoverFiles" =>
    /\ \A i, j \in 1..Len(lastResult.value) :
         i < j => PathLess(lastResult.value[i], lastResult.value[j])
    /\ Len(lastResult.value) = Cardinality(DOMAIN disk)

\* C7: an aggregate operation does not fail, and returns what it returns
\* over the directory without the files that fail to load.
LoadableOnly(d) == [p \in {q \in DOMAIN d : Loadable(d, q)} |-> d[p]]
OverLoadable(call) ==
  LET m == Manager(<<>>)
      d == LoadableOnly(disk)
  IN CASE call.op = "loadAllFiles" -> LoadAllFiles(m, d).out
       [] call.op = "getDataInRange" -> GetDataInRange(m, d, call.arg).out
       [] call.op = "getAvailableMetrics" -> GetAvailableMetrics(m, d).out
       [] call.op = "getDateRange" -> GetDateRange(m, d).out
       [] call.op = "getSampleData" -> GetSampleData(m, d, METRIC, call.arg).out

C7_FailedFilesAreSkipped ==
  lastCall.op \in AggregateOps =>
    /\ lastResult.ok
    /\ lastResult.value = OverLoadable(lastCall)

\* An aggregate operation that met a file that fails to load and still
\* returned something.
C7_Witness ==
  /\ lastCall.op \in AggregateOps
  /\ \E p \in DOMAIN disk : ~Loadable(disk, p)
  /\ lastResult.value # <<>>

\* C8: getDataInRange over a range that no discovered file's day overlaps
\* returns the empty sequence and raises nothing.
C8_NoOverlapIsEmpty ==
  (/\ lastCall.op = "getDataInRange"
   /\ \A p \in DOMAIN disk : Dated(p) => ~DayOverlaps(p.day, lastCall.arg))
    => (lastResult.ok /\ lastResult.value = <<>>)

\* Such a read over a loadable file that holds a record of the range.
C8_Witness ==
  /\ lastCall.op = "getDataInRange"
  /\ \A p \in DOMAIN disk : Dated(p) => ~DayOverlaps(p.day, lastCall.arg)
  /\ \E p \in DOMAIN disk : \E i \in 1..Len(disk[p]) :
       /\ Loadable(disk, p)
       /\ lastCall.arg.start <= disk[p][i].csvDate
       /\ disk[p][i].csvDate <= lastCall.arg.end
       /\ disk[p][i].csvDate % HoursPerDay # 1
  /\ lastResult.value = <<>>

\* C9: with caching enabled, loadFile of a cached path returns the cached
\* file, parses nothing, and leaves the cache's keys and their order as
\* they were.
C9_CacheHitChangesNothing ==
  [][\A p \in Paths :
       (/\ config.enableCaching
        /\ CacheHas(cache, p)
        /\ lastCall' = [op |-> "loadFile", arg |-> p]
        /\ loadLog' = <<p>>)
         => (/\ lastResult'.ok
             /\ lastResult'.value = CacheGet(cache, p)
             /\ parseLog' = <<>>
             /\ GetCacheStats(cache') = GetCacheStats(cache))]_vars

\* A loadFile answered from a cache of two entries, the hit one the older.
C9_Witness ==
  /\ config.enableCaching
  /\ lastCall.op = "loadFile"
  /\ loadLog = <<lastCall.arg>>
  /\ parseLog = <<>>
  /\ GetCacheStats(cache).size >= 2
  /\ GetCacheStats(cache).files[1] = lastCall.arg


\* ======================================================================
\* The claims about the query engine
\* ======================================================================
\* The SELECT list holds aggregate expressions and nothing else.
AggregatesOnly(select) ==
  /\ select # <<>>
  /\ \A i \in 1..Len(select) : select[i].fn \in AggFns

\* What each expression of an aggregate SELECT list is over the records.
AggregatesOver(points, select) ==
  LET aggregatedPoint == AggregatedPoint(points, select, Len(select), <<>>)
  IN [i \in 1..Len(select) |-> Get(aggregatedPoint, select[i])]

\* C10: a query whose SELECT list consists of aggregate expressions and that
\* has no GROUP BY clause returns exactly one row, which holds each aggregate
\* computed over all the records that pass the WHERE filter.
C10_AggregateWithoutGroupBy ==
  (/\ lastQuery.called
   /\ AggregatesOnly(lastQuery.query.select)
   /\ lastQuery.query.from = <<"health_data">>
   /\ lastQuery.query.groupBy = <<>>
   /\ lastQuery.options.format = "json")
    => LET passing == ApplyFilters(queryData, ParseWhereClause(lastQuery.query.where))
       IN passing # <<>> =>
            /\ queryResult.ok
            /\ queryResult.rowCount = 1
            /\ queryResult.rows = <<AggregatesOver(passing, lastQuery.query.select)>>


\* x OP v on numbers.
Holds(x, op, v) ==
  CASE op = "=" -> x = v
    [] op = "!=" -> x # v
    [] op = ">" -> x > v
    [] op = "<" -> x < v
    [] op = ">=" -> x >= v
    [] op = "<=" -> x <= v

\* The last call was SELECT * with the one condition `column OP literal`.
ComparisonRan ==
  /\ lastQuery.called
  /\ lastQuery.query.select = <<STAR>>
  /\ Len(lastQuery.query.where) = 1
  /\ lastQuery.query.where[1].operator \in ComparisonOps

\* C11: a condition `col OP v`, OP one of =, !=, >, <, >=, <= and v a numeric
\* literal, is parsed to the filter with column col, operator OP and value v,
\* and of records whose col holds a number x the query returns exactly those
\* with x OP v.
C11_ComparisonSelects ==
  ComparisonRan =>
    LET c == lastQuery.query.where[1]
        v == ToNumber(c.value)
        HoldsNumber(point) == Get(point, c.column).t = "number"
        Selected(point) == Holds(Get(point, c.column).n, c.operator, v.n)
    IN /\ ParseCondition(c) = [column |-> c.column, operator |-> c.operator, value |-> v]
       /\ (\A i \in 1..Len(queryData) : HoldsNumber(queryData[i])) =>
            /\ queryResult.ok
            /\ queryResult.rows =
                 FormatResult(SelectSeq(queryData, Selected), <<STAR>>,
                              lastQuery.options).rows


\* The error's message holds the text.
MessageNames(error, text) ==
  \E i \in 1..Len(error.message) : error.message[i] = text

\* C12: a query string with no SELECT clause makes executeQuery fail with an
\* error of code INVALID_QUERY whose message names the SELECT clause as the
\* missing one, never with an error of another kind.
C12_MissingSelectIsInvalidQuery ==
  (lastQuery.called /\ lastQuery.query.select = <<>>)
    => /\ ~queryResult.ok
       /\ queryResult.code = "INVALID_QUERY"
       /\ MessageNames(queryResult, "Missing SELECT clause")

\* C13: a query string with a SELECT list and no FROM clause makes
\* executeQuery fail with a message that names the FROM clause as the missing
\* one.
C13_MissingFromIsNamed ==
  (lastQuery.called /\ lastQuery.query.select # <<>> /\ lastQuery.query.from = <<>>)
    => /\ ~queryResult.ok
       /\ MessageNames(queryResult, "Missing FROM clause")


\* The last call was SELECT * with the one condition `column IN (...)`.
MembershipRan ==
  /\ lastQuery.called
  /\ lastQuery.query.select = <<STAR>>
  /\ Len(lastQuery.query.where) = 1
  /\ lastQuery.query.where[1].operator = "IN"

\* C14: a condition `col IN (v1, ..., vk)` selects a record exactly when the
\* record's value for col is one of the listed values; a record whose col
\* holds the number n is selected by `col IN (n)`.
C14_InSelectsListed ==
  MembershipRan =>
    LET c == lastQuery.query.where[1]
        Listed(point) ==
          \E i \in 1..Len(c.value) : Get(point, c.column) = ToNumber(c.value[i])
    IN /\ queryResult.ok
       /\ queryResult.rows =
            FormatResult(SelectSeq(queryData, Listed), <<STAR>>, lastQuery.options).rows


\* The last call was SELECT * with an ORDER BY clause and nothing else.
OrderRan ==
  /\ lastQuery.called
  /\ lastQuery.query.select = <<STAR>>
  /\ lastQuery.query.orderBy # <<>>
  /\ lastQuery.query.where = <<>>
  /\ lastQuery.query.limit = <<>>

\* What row r of the result holds for the column.
Cell(r, column) ==
  IF \E i \in 1..Len(queryResult.columns) : queryResult.columns[i] = column
  THEN queryResult.rows[r][CHOOSE i \in 1..Len(queryResult.columns) :
                             queryResult.columns[i] = column]
  ELSE Undefined

\* Rows r1 and r2 of the result hold the same for the first n sort keys, null
\* and undefined being the same.
TiedOnKeys(r1, r2, n) ==
  \A j \in 1..n :
    LET v1 == Cell(r1, lastQuery.query.orderBy[j].column)
        v2 == Cell(r2, lastQuery.query.orderBy[j].column)
    IN v1 = v2 \/ (IsNullish(v1) /\ IsNullish(v2))

\* C15 as stated: in the output of ORDER BY, for each sort key, every row
\* whose key value is null or undefined comes before every row whose key value
\* is not, with ASC and with DESC.
C15_NullsAlwaysFirst ==
  OrderRan =>
    \A k \in 1..Len(lastQuery.query.orderBy) :
      \A r1, r2 \in 1..queryResult.rowCount :
        (/\ IsNullish(Cell(r1, lastQuery.query.orderBy[k].column))
         /\ ~IsNullish(Cell(r2, lastQuery.query.orderBy[k].column)))
          => r1 < r2

\* C15 as amended: among rows that hold the same for all earlier sort keys,
\* every row whose key value is null or undefined comes before every row whose
\* key value is not when the key's direction is ASC, and after it when the
\* direction is DESC.
C15_NullsAreLeast ==
  OrderRan =>
    \A k \in 1..Len(lastQuery.query.orderBy) :
      \A r1, r2 \in 1..queryResult.rowCount :
        (/\ TiedOnKeys(r1, r2, k - 1)
         /\ IsNullish(Cell(r1, lastQuery.query.orderBy[k].column))
         /\ ~IsNullish(Cell(r2, lastQuery.query.orderBy[k].column)))
          => IF lastQuery.query.orderBy[k].direction = "DESC" THEN r2 < r1 ELSE r1 < r2

\* A DESC sort put a row without the key's value behind two rows with it.
C15_Witness ==
  /\ OrderRan
  /\ lastQuery.query.orderBy = <<OrderBy(STEPS, "DESC")>>
  /\ queryResult.rowCount = 3
  /\ ~IsNullish(Cell(1, STEPS))
  /\ ~IsNullish(Cell(2, STEPS))
  /\ IsNullish(Cell(3, STEPS))


\* Key value x is below key value y: null and undefined, which are the least
\* (C15), below every other value, numbers by size, dates by instant.
KeyBelow(x, y) ==
  /\ ~IsNullish(y)
  /\ IsNullish(x) \/ ToNumber(x).n < ToNumber(y).n

KeyTied(x, y) == ~KeyBelow(x, y) /\ ~KeyBelow(y, x)

\* Record a must come before record b: they tie on the keys before some key
\* and that key, in its direction, puts a first.
MustPrecede(a, b, orderBy) ==
  \E k \in 1..Len(orderBy) :
    /\ \A j \in 1..(k - 1) :
         KeyTied(Get(a, orderBy[j].column), Get(b, orderBy[j].column))
    /\ IF orderBy[k].direction = "DESC"
       THEN KeyBelow(Get(b, orderBy[k].column), Get(a, orderBy[k].column))
       ELSE KeyBelow(Get(a, orderBy[k].column), Get(b, orderBy[k].column))

\* p arranges the records in the order of the keys, records that tie on all
\* keys staying in their order.
ArrangesInOrder(p, records, orderBy) ==
  \A i, j \in 1..Len(records) :
    i < j =>
      /\ ~MustPrecede(records[p[j]], records[p[i]], orderBy)
      /\ ~MustPrecede(records[p[i]], records[p[j]], orderBy) => p[i] < p[j]

\* C16: the output of ORDER BY k1 d1, ..., kn dn is a permutation of the input
\* rows in the lexicographic order of the keys, non-decreasing in a key with
\* ASC and non-increasing with DESC, rows that tie on a key ordered by the next
\* key and rows that tie on all keys kept in their input order.
C16_OrderByIsStableLexicographic ==
  [][OrderRan' =>
       \E p \in Permutations(1..Len(queryData)) :
         /\ ArrangesInOrder(p, queryData, lastQuery'.query.orderBy)
         /\ queryResult'.ok
         /\ queryResult'.rows =
              FormatResult([i \in 1..Len(queryData) |-> queryData[p[i]]], <<STAR>>,
                           lastQuery'.options).rows]_vars

\* A two-key sort put the greater metric first and ordered the two rows that
\* tie on it by their timestamps.
C16_Witness ==
  /\ OrderRan
  /\ lastQuery.query.orderBy = <<OrderBy(STEPS, "DESC"), OrderBy(TIMESTAMP, "ASC")>>
  /\ queryResult.rowCount = 3
  /\ Cell(1, STEPS) = Num(2)
  /\ Cell(2, STEPS) = Num(1)
  /\ Cell(3, STEPS) = Num(1)
  /\ Cell(2, TIMESTAMP) # Cell(3, TIMESTAMP)


\* The last call had a LIMIT clause.
PageRan ==
  /\ lastQuery.called
  /\ lastQuery.query.limit # <<>>

\* The rows at positions m .. m+n-1, counted from 0, of the sequence, as many
\* as there are.
RowsAt(rows, m, n) ==
  [i \in 1..(IF m >= Len(rows) THEN 0
             ELSE IF m + n > Len(rows) THEN Len(rows) - m ELSE n) |-> rows[m + i]]

\* C17: with LIMIT n, n >= 1, and OFFSET m, 0 when there is none, the result
\* is the rows at positions m .. m+n-1 of the sequence that filtering, grouping
\* and sorting give, cut at its end; with m at or beyond its length the result
\* is empty and no error is raised.
C17_LimitOffsetIsASlice ==
  [][PageRan' =>
       LET query == lastQuery'.query
           n == query.limit[1]
           m == IF query.offset = <<>> THEN 0 ELSE query.offset[1]
           whole == ExecuteQuery(queryData, [query EXCEPT !.limit = <<>>, !.offset = <<>>],
                                 lastQuery'.options).result
       IN /\ queryResult'.ok
          /\ queryResult'.rows = RowsAt(whole.rows, m, n)
          /\ queryResult'.rowCount = Len(RowsAt(whole.rows, m, n))]_vars

\* LIMIT 2 OFFSET 1 on three sorted rows returned the second and third.
C17_Witness ==
  /\ PageRan
  /\ lastQuery.query.orderBy = <<OrderBy(STEPS, "DESC")>>
  /\ lastQuery.query.limit = <<2>>
  /\ lastQuery.query.offset = <<1>>
  /\ Len(queryData) = 3
  /\ queryResult.rowCount = 2
  /\ queryResult.rows[1][2] = Num(1)
  /\ queryResult.rows[2][2] = NullV


\* The last call was SELECT of plain aggregates with GROUP BY DATE(timestamp)
\* and nothing else.
GroupRan ==
  /\ lastQuery.called
  /\ lastQuery.query.groupBy = <<Call("DATE", "timestamp")>>
  /\ lastQuery.query.orderBy = <<>>
  /\ \A i \in 1..Len(lastQuery.query.select) :
       lastQuery.query.select[i].fn \in AggFns /\ lastQuery.query.select[i].rest = ""

\* The day of a record, and the records of a day.
DayOf(point) == Get(point, TIMESTAMP).n \div HoursPerDay
Bucket(records, day) ==
  LET OnDay(point) == DayOf(point) = day IN SelectSeq(records, OnDay)

\* The numbers the records hold for the column, as a sequence of integers.
NumbersOf(records, column) ==
  LET HoldsNumber(point) == Get(point, column).t = "number"
      holders == SelectSeq(records, HoldsNumber)
  IN [i \in 1..Len(holders) |-> Get(holders[i], column).n]

RECURSIVE Total(_)
Total(numbers) == IF numbers = <<>> THEN 0 ELSE Head(numbers) + Total(Tail(numbers))

\* SUM, AVG, MIN and MAX of the numbers, 0 when there is none.
OverNumbers(fn, numbers) ==
  LET set == {numbers[i] : i \in 1..Len(numbers)}
  IN IF numbers = <<>> THEN Num(0)
     ELSE CASE fn = "SUM" -> Num(Total(numbers))
            [] fn = "AVG" -> Quotient(Total(numbers), Len(numbers))
            [] fn = "MIN" -> Num(CHOOSE x \in set : \A y \in set : x <= y)
            [] fn = "MAX" -> Num(CHOOSE x \in set : \A y \in set : x >= y)

\* C18: within each GROUP BY bucket, AVG(col), MIN(col), MAX(col) and SUM(col)
\* are the average, minimum, maximum and sum over only those records of the
\* bucket whose col is a non-missing numeric value, and 0 when the bucket has
\* no such record.
C18_AggregatesSkipMissing ==
  GroupRan =>
    LET select == lastQuery.query.select
        days == {DayOf(queryData[i]) : i \in 1..Len(queryData)}
    IN /\ queryResult.ok
       /\ queryResult.rowCount = Cardinality(days)
       /\ \A day \in days :
            \E r \in 1..queryResult.rowCount :
              \A i \in 1..Len(select) :
                select[i].fn \in {"SUM", "AVG", "MIN", "MAX"} =>
                  queryResult.rows[r][i] =
                    OverNumbers(select[i].fn,
                                NumbersOf(Bucket(queryData, day), Col(select[i].arg)))


\* The last call was SELECT DATE(timestamp) as date, SUM(metric) as total with
\* GROUP BY DATE(timestamp), over some records.
AliasRan ==
  /\ lastQuery.called
  /\ lastQuery.query.select =
       <<As(Call("DATE", "timestamp"), " as date"), As(Call("SUM", METRIC), " as total")>>
  /\ queryData # <<>>

\* C19: when a SELECT expression is written `expr as alias`, the result's
\* column is named alias and holds the value of expr, and an ORDER BY on alias
\* orders the rows by that value.
C19_AliasNamesColumn ==
  AliasRan =>
    LET days == {DayOf(queryData[i]) : i \in 1..Len(queryData)}
        RowOf(day) ==
          <<Formatted(DateV(day * HoursPerDay), "yyyy-MM-dd"),
            Num(Total(NumbersOf(Bucket(queryData, day), STEPS)))>>
    IN /\ queryResult.ok
       /\ queryResult.columns = <<Col("date"), Col("total")>>
       /\ queryResult.rowCount = Cardinality(days)
       /\ \A day \in days :
            \E r \in 1..queryResult.rowCount : queryResult.rows[r] = RowOf(day)
       /\ lastQuery.query.orderBy # <<>> =>
            \A r1, r2 \in 1..queryResult.rowCount :
              r1 < r2 =>
                IF lastQuery.query.orderBy[1].direction = "DESC"
                THEN queryResult.rows[r1][2].n >= queryResult.rows[r2][2].n
                ELSE queryResult.rows[r1][2].n <= queryResult.rows[r2][2].n


\* The last call was SELECT * with two conditions and a keyword between them.
JoinedRan ==
  /\ lastQuery.called
  /\ lastQuery.query.select = <<STAR>>
  /\ Len(lastQuery.query.where) = 3

\* The condition, asked alone, lets the record pass.
ConditionHolds(point, condition) == EvaluateFilter(point, ParseCondition(condition))

ValidQueryRan ==
  /\ lastQuery.called
  /\ lastQuery.query.select # <<>>
  /\ lastQuery.query.from = <<"health_data">>

\* C21: when the record sequence given to executeQuery is empty, the result
\* has empty columns, empty rows and rowCount 0, in each of the formats json,
\* csv and summary, for every valid query.
C21_EmptyInputEmptyResult ==
  [][(ValidQueryRan' /\ queryData = <<>>) =>
       /\ queryResult'.ok
       /\ queryResult'.columns = <<>>
       /\ queryResult'.rows = <<>>
       /\ queryResult'.rowCount = 0]_vars

\* A summary was asked of no records and came back with no row.
C21_Witness ==
  /\ ValidQueryRan
  /\ queryData = <<>>
  /\ lastQuery.options.format = "summary"
  /\ queryResult.ok
  /\ queryResult.rowCount = 0

KeyRan ==
  /\ lastQuery.called
  /\ lastQuery.query.groupBy # <<>>

\* The value a record has for a GROUP BY expression: for a time bucket the
\* bucket's date string, else what the record holds for the column.
ValueOf(point, col) ==
  LET t == Get(point, TIMESTAMP).n
  IN CASE col = Call("DATE", "timestamp") ->
            Formatted(DateV((t \div HoursPerDay) * HoursPerDay), "yyyy-MM-dd")
       [] col = Call("HOUR", "timestamp") -> Formatted(DateV(t), "yyyy-MM-dd HH:00")
       [] col = Call("WEEK", "timestamp") ->
            Formatted(DateV((t \div (DaysPerWeek * HoursPerDay)) * DaysPerWeek * HoursPerDay),
                      "yyyy-MM-dd")
       [] col = Call("MONTH", "timestamp") -> Formatted(DateV(0), "yyyy-MM-dd")
       [] OTHER -> Get(point, col)
Tuple(point, groupBy) == [i \in 1..Len(groupBy) |-> ValueOf(point, groupBy[i])]

\* C25: a GROUP BY query returns one row for each distinct tuple of values
\* that the records have for the GROUP BY expressions; 0, null, the empty
\* string and an absent value are four values.
C25_OneRowPerValueTuple ==
  [][KeyRan' =>
       /\ queryResult'.ok
       /\ queryResult'.rowCount =
            Cardinality({Tuple(queryData[i], lastQuery'.query.groupBy) :
                           i \in 1..Len(queryData)})]_vars

\* C26: in the result of a GROUP BY query, the cell of a SELECT expression
\* that is one of the GROUP BY expressions holds the expression's value for
\* the first record of the row's bucket: for DATE, HOUR, WEEK and
\* MONTH(timestamp) the bucket's date string.
C26_GroupColumnIsFirstValue ==
  [][KeyRan' =>
       LET query == lastQuery'.query
           groups == Groups(queryData, query.groupBy)
       IN /\ queryResult'.ok
          /\ queryResult'.rowCount = Len(groups)
          /\ \A r \in 1..Len(groups) : \A i \in 1..Len(query.select) :
               (\E k \in 1..Len(query.groupBy) : query.groupBy[k] = query.select[i])
                 => queryResult'.rows[r][i] = ValueOf(groups[r].points[1], query.select[i])]_vars

\* The last call asked for the summary of some records.
SummaryRan ==
  /\ ValidQueryRan
  /\ lastQuery.options.format = "summary"
  /\ queryData # <<>>

\* The records that hold a number for the column.
WithNumber(records, col) ==
  {i \in 1..Len(records) : Get(records[i], col).t = "number"}

\* C27: the summary row has an entry for a column other than timestamp if
\* and only if some record holds a number for it, and the entry's count is
\* the number of those records; a column that is null in every record has
\* no entry.
C27_SummaryCountsNumbers ==
  [][SummaryRan' =>
       /\ queryResult'.ok
       /\ queryResult'.rowCount = 1
       /\ \A i \in 1..Len(queryResult'.columns) :
            LET col == queryResult'.columns[i]
                holders == WithNumber(queryData, col)
            IN col # TIMESTAMP =>
                 /\ (col \in DOMAIN queryResult'.rows[1]) <=> (holders # {})
                 /\ (col \in DOMAIN queryResult'.rows[1]) =>
                      queryResult'.rows[1][col].count = Num(Cardinality(holders))]_vars

\* C28: executeQuery leaves the caller's array as it was, the same records
\* in the same order, whatever the query.
C28_InputArrayUnchanged ==
  [][lastQuery'.called => queryData' = queryData]_vars

\* The last call was a LIMIT query answered in json or csv.
LimitRan ==
  /\ ValidQueryRan
  /\ lastQuery.query.limit # <<>>
  /\ lastQuery.options.format \in {"json", "csv"}

\* C29: a query with LIMIT n returns at most n rows, for n = 0 too.
C29_AtMostLimitRows ==
  LimitRan =>
    /\ queryResult.ok
    /\ queryResult.rowCount <= lastQuery.query.limit[1]
    /\ Len(queryResult.rows) <= lastQuery.query.limit[1]

\* The file at p is missing, or its name carries no date, or one of its
\* rows has a timestamp that does not parse.
Unloadable(p) ==
  \/ p \notin DOMAIN disk
  \/ p.kind = "other"
  \/ \E i \in 1..Len(disk[p]) : disk[p][i].csvDate = BadStamp

\* C24: a loadFile of a file that cannot be loaded throws, returns no
\* records of the file, and leaves the cache's entries and their order as
\* they were.
C24_FailedLoadChangesNothing ==
  [][\A p \in Paths :
       (/\ lastCall' = [op |-> "loadFile", arg |-> p]
        /\ loadLog' = <<p>>
        /\ Unloadable(p))
         => (/\ ~lastResult'.ok
             /\ "data" \notin DOMAIN lastResult'.value
             /\ lastResult'.value.code = "CSV_PARSE_FAILED"
             /\ cache' = cache
             /\ evictLog' = <<>>)]_vars

\* A loadFile that failed on a timestamp while the cache held another file.
C24_Witness ==
  /\ lastCall.op = "loadFile"
  /\ ~lastResult.ok
  /\ lastCall.arg \in DOMAIN disk
  /\ Unloadable(lastCall.arg)
  /\ lastCall.arg.kind # "other"
  /\ config.enableCaching
  /\ GetCacheStats(cache).size = 1

\* ======================================================================
\* The claims about calls that overlap
\* ======================================================================
\* Two calls are both awaiting parseCSVFile of one path.
BothParsing(a, b) ==
  /\ a # b
  /\ callers[a].parsing
  /\ callers[b].parsing
  /\ Head(callers[a].todo) = Head(callers[b].todo)

\* C23: with caching enabled, of two calls in flight that load the same
\* path at most one parses the file: no two calls are ever both between the
\* cache miss and the insert for one path.
C23_OverlappingLoadsParseOnce ==
  config.enableCaching =>
    \A a \in 1..MaxCallers, b \in 1..MaxCallers : ~BothParsing(a, b)

\* C30: with caching enabled, in every state that interleaved calls reach
\* the cache holds at most config.cacheSize entries, and each entry is the
\* whole parse of the file its key names.
C30_CacheBoundedAndWhole ==
  config.enableCaching =>
    /\ GetCacheStats(cache).size <= config.cacheSize
    /\ \A i \in 1..Len(cache) :
         /\ cache[i].file.ok
         /\ cache[i].file = ParseCSVFile(disk, cache[i].key)
         /\ cache[i].file.rowCount = Len(disk[cache[i].key])

\* A call stored its file and deleted another's while a second call was
\* still parsing.
C30_Witness ==
  /\ config.enableCaching
  /\ config.cacheSize >= 1
  /\ GetCacheStats(cache).size = config.cacheSize
  /\ evictLog # <<>>
  /\ \E c \in 1..MaxCallers : callers[c].parsing

====
